---- MODULE Spec2Model ----
(***************************************************************************)
(* Model of the XInput backend of gilrs, src/platform/windows/gamepad.rs:  *)
(* the worker thread started by Gilrs::spawn_thread (poll loop, command    *)
(* drain, force-feedback timing pass), Gilrs::compare_state, and the two   *)
(* channels that connect the worker to the application.                    *)
(***************************************************************************)
EXTENDS Integers, Sequences, FiniteSets, TLC

VARIABLES
    pc,          \* position of the worker thread in its loop body
    id,          \* loop variable of the worker's `for id in 0..4`
    connected,   \* worker's `connected: [bool; 4]`
    prev_state,  \* worker's `prev_state: XState` (one for all slots)
    state,       \* worker's `state: XState`, the buffer XInputGetState fills
    val,         \* return code of the worker's last XInputGetState call
    counter,     \* worker's tick counter
    effects,     \* worker's `effects: [Option<Effect>; 4]`
    ffrx,        \* the sync_channel(4) of FfMessage, application -> worker
    tx,          \* the channel of (id, Event), worker -> application
    motor,       \* what XInputSetState was last given, and how often, per slot
    build,       \* "debug" (overflow checks on) or "release" (wrapping)
    gilrs,       \* the Gilrs struct: `gamepads` and `not_observed`
    hist         \* history variables: what the adapter and the application did

vars == <<pc, id, connected, prev_state, state, val, counter, effects, ffrx,
          tx, motor, build, gilrs, hist>>

-----------------------------------------------------------------------------
(* Program constants *)

NumSlots == 4
ITERATIONS_TO_CHECK_IF_CONNECTED == 100
EVENT_THREAD_SLEEP_TIME == 10
FfChannelCapacity == 4
U8_MAX == 255
I16_MAX == 32767
U16_MAX == 65535

XINPUT_GAMEPAD_DPAD_UP == 1
XINPUT_GAMEPAD_DPAD_DOWN == 2
XINPUT_GAMEPAD_DPAD_LEFT == 4
XINPUT_GAMEPAD_DPAD_RIGHT == 8
XINPUT_GAMEPAD_START == 16
XINPUT_GAMEPAD_BACK == 32
XINPUT_GAMEPAD_LEFT_THUMB == 64
XINPUT_GAMEPAD_RIGHT_THUMB == 128
XINPUT_GAMEPAD_LEFT_SHOULDER == 256
XINPUT_GAMEPAD_RIGHT_SHOULDER == 512
XINPUT_GAMEPAD_A == 4096
XINPUT_GAMEPAD_B == 8192
XINPUT_GAMEPAD_X == 16384
XINPUT_GAMEPAD_Y == 32768

Slots == 0 .. (NumSlots - 1)

-----------------------------------------------------------------------------
(* Bounds of the model *)

\* Number of fields in which the two snapshots given to compare_state may
\* differ in the specification of the pure function (SpecDiff).
MaxDiff == 2

-----------------------------------------------------------------------------
(* Raw state: XINPUT_GAMEPAD and XINPUT_STATE *)

AxisFields == <<"bLeftTrigger", "bRightTrigger", "sThumbLX", "sThumbLY",
                "sThumbRX", "sThumbRY">>

PadFields == {"wButtons", "bLeftTrigger", "bRightTrigger", "sThumbLX",
              "sThumbLY", "sThumbRX", "sThumbRY"}

\* mem::zeroed::<XState>()
ZeroPad == [wButtons |-> 0, bLeftTrigger |-> 0, bRightTrigger |-> 0,
            sThumbLX |-> 0, sThumbLY |-> 0, sThumbRX |-> 0, sThumbRY |-> 0]

ZeroState == [dwPacketNumber |-> 0, Gamepad |-> ZeroPad]

\* l & r on 16-bit words.
RECURSIVE BitAnd(_, _)
BitAnd(l, r) ==
    IF l = 0 \/ r = 0 THEN 0
    ELSE (l % 2) * (r % 2) + 2 * BitAnd(l \div 2, r \div 2)

is_mask_eq(l, r, mask) == (BitAnd(l, mask) # 0) = (BitAnd(r, mask) # 0)

-----------------------------------------------------------------------------
(* Events.  The f32 quotient `raw as f32 / MAX as f32` is kept as the pair  *)
(* (num, den): both operands are exact in f32 and the rounded quotient     *)
(* compares with -1, 0 and 1 as the exact one does.                        *)

Connected == [type |-> "Connected"]
Disconnected == [type |-> "Disconnected"]
AxisChanged(axis, num, den, code) ==
    [type |-> "AxisChanged", axis |-> axis, num |-> num, den |-> den, code |-> code]
ButtonPressed(button, code) ==
    [type |-> "ButtonPressed", button |-> button, code |-> code]
ButtonReleased(button, code) ==
    [type |-> "ButtonReleased", button |-> button, code |-> code]

\* One `if g.F != pg.F { tx.send((id, AxisChanged(axis, g.F / max, code))) }`
axis_event_stale(i, g, pg, field, axis, max, code) ==
    IF g[field] # pg[field]
    THEN << <<i, AxisChanged(axis, pg[field], max, code)>> >>
    ELSE << >>

axis_event(i, g, pg, field, axis, max, code) ==
    IF g[field] # pg[field]
    THEN << <<i, AxisChanged(axis, g[field], max, code)>> >>
    ELSE << >>

\* One `if !is_mask_eq(g.wButtons, pg.wButtons, M) { match g.wButtons & M != 0
\*      { true => send Pressed, false => send Released } }`
button_event_inverted(i, g, pg, mask, button) ==
    IF ~ is_mask_eq(g.wButtons, pg.wButtons, mask)
    THEN IF BitAnd(g.wButtons, mask) # 0
         THEN << <<i, ButtonReleased(button, mask)>> >>
         ELSE << <<i, ButtonPressed(button, mask)>> >>
    ELSE << >>

button_event(i, g, pg, mask, button) ==
    IF ~ is_mask_eq(g.wButtons, pg.wButtons, mask)
    THEN IF BitAnd(g.wButtons, mask) # 0
         THEN << <<i, ButtonPressed(button, mask)>> >>
         ELSE << <<i, ButtonReleased(button, mask)>> >>
    ELSE << >>

\* The six axis comparisons of compare_state, in source order.
axis_events(i, g, pg) ==
       axis_event(i, g, pg, "bLeftTrigger", "LeftTrigger2", U8_MAX, 4)
    \o axis_event(i, g, pg, "bRightTrigger", "RightTrigger2", U8_MAX, 5)
    \o axis_event(i, g, pg, "sThumbLX", "LeftStickX", I16_MAX, 0)
    \o axis_event(i, g, pg, "sThumbLY", "LeftStickY", I16_MAX, 1)
    \o axis_event(i, g, pg, "sThumbRX", "RightStickX", I16_MAX, 2)
    \o axis_event(i, g, pg, "sThumbRY", "RightStickY", I16_MAX, 3)

\* The fourteen button comparisons of compare_state, in source order.
button_events(i, g, pg) ==
       button_event(i, g, pg, XINPUT_GAMEPAD_DPAD_UP, "DPadUp")
    \o button_event(i, g, pg, XINPUT_GAMEPAD_DPAD_DOWN, "DPadDown")
    \o button_event(i, g, pg, XINPUT_GAMEPAD_DPAD_LEFT, "DPadLeft")
    \o button_event(i, g, pg, XINPUT_GAMEPAD_DPAD_RIGHT, "DPadRight")
    \o button_event(i, g, pg, XINPUT_GAMEPAD_START, "Start")
    \o button_event(i, g, pg, XINPUT_GAMEPAD_BACK, "Select")
    \o button_event(i, g, pg, XINPUT_GAMEPAD_LEFT_THUMB, "LeftThumb")
    \o button_event(i, g, pg, XINPUT_GAMEPAD_RIGHT_THUMB, "RightThumb")
    \o button_event(i, g, pg, XINPUT_GAMEPAD_LEFT_SHOULDER, "LeftTrigger")
    \o button_event(i, g, pg, XINPUT_GAMEPAD_RIGHT_SHOULDER, "RightTrigger")
    \o button_event(i, g, pg, XINPUT_GAMEPAD_A, "South")
    \o button_event(i, g, pg, XINPUT_GAMEPAD_B, "East")
    \o button_event(i, g, pg, XINPUT_GAMEPAD_X, "West")
    \o button_event(i, g, pg, XINPUT_GAMEPAD_Y, "North")

\* Gilrs::compare_state(id, g, pg, tx): the channel after the sends.
compare_state_buttons_first(i, g, pg, chan) ==
    chan \o button_events(i, g, pg) \o axis_events(i, g, pg)

compare_state(i, g, pg, chan) ==
    chan \o axis_events(i, g, pg) \o button_events(i, g, pg)

-----------------------------------------------------------------------------
(* Bounds of the worker model *)

\* Slots 0 .. ConnSlots-1 have a device that comes and goes in the
\* specification of connection tracking (SpecConn); the others have none.
ConnSlots == 1
\* SpecConn follows the worker for MaxTicks iterations of its loop.
MaxTicks == 101
\* The history keeps at most MaxLog connection transitions per slot.
MaxLog == 4
\* Slots 0 .. PollSlots-1 have a device in the specification of snapshot
\* diffing (SpecPoll), which follows the worker for MaxPollTicks iterations.
PollSlots == 2
MaxPollTicks == 2
\* The adapter's packet numbers are 0 .. MaxPacket.
MaxPacket == 1
\* The worker polls only while fewer than MaxPending events wait in tx.
MaxPending == 2
\* In the specification of force feedback (SpecFF) the application sends
\* effect commands to slots 0 .. FfSlots-1, at most MaxCmds of them; the
\* worker is followed for MaxFfTicks iterations, and no effect grows older
\* than MaxAge milliseconds.
FfSlots == 1
MaxCmds == 3
MaxFfTicks == 2
MaxAge == 20
\* In the specification of command bursts (SpecBurst) the application sends
\* up to MaxBurst commands, more than the channel holds at a time.
MaxBurst == 5
\* In the specification of the slot registry (SpecFacade) the application
\* looks up the ids 0 .. MaxId while the worker runs for MaxFacadeTicks
\* iterations.
MaxId == 5
MaxFacadeTicks == 1
\* In the specification of late ticks (SpecLate) the worker is followed for
\* MaxLateTicks iterations and no effect grows older than MaxLateAge
\* milliseconds.
MaxLateTicks == 2
MaxLateAge == 1010

-----------------------------------------------------------------------------
(* The hardware adapter: XInputGetState *)

SUCCESS == "ERROR_SUCCESS"
NOT_CONNECTED == "ERROR_DEVICE_NOT_CONNECTED"
OTHER_ERROR == "ERROR_OTHER"
NO_READ == "NO_READ"

PadA == [ZeroPad EXCEPT !.wButtons = XINPUT_GAMEPAD_A]

Snapshots == [dwPacketNumber : 0 .. MaxPacket, Gamepad : {ZeroPad, PadA}]

Failure(v) == [val |-> v, st |-> ZeroState]

\* What XInputGetState(i, &mut state) may answer.  SpecPoll: a device on
\* each of the first PollSlots slots that reports any of Snapshots or fails.
FullAdapter ==
    [i \in Slots |->
       IF i < PollSlots
       THEN [val : {SUCCESS}, st : Snapshots]
            \cup {Failure(NOT_CONNECTED), Failure(OTHER_ERROR)}
       ELSE {Failure(NOT_CONNECTED)}]

\* SpecConn: a device on each of the first ConnSlots slots that comes and
\* goes and always reports the same snapshot.
ConnAdapter ==
    [i \in Slots |->
       IF i < ConnSlots
       THEN {[val |-> SUCCESS, st |-> [dwPacketNumber |-> 1, Gamepad |-> PadA]],
             Failure(NOT_CONNECTED), Failure(OTHER_ERROR)}
       ELSE {Failure(NOT_CONNECTED)}]

\* SpecPlug: one device, on the last of the slots 0 .. ConnSlots-1, that
\* comes and goes as in ConnAdapter until it settles; from then on every
\* read of its slot succeeds.
PlugSlot == ConnSlots - 1

StableAdapter(settled) ==
    [i \in Slots |->
       IF i # PlugSlot THEN {Failure(NOT_CONNECTED)}
       ELSE IF settled.on
       THEN {[val |-> SUCCESS, st |-> [dwPacketNumber |-> 1, Gamepad |-> PadA]]}
       ELSE ConnAdapter[i]]

\* An adapter whose devices are all attached and idle.
IdleAdapter == [i \in Slots |-> [val : {SUCCESS}, st : {ZeroState}]]

-----------------------------------------------------------------------------
(* Force feedback: EffectData, Effect, FfMessage *)

None == [some |-> FALSE]

PlayCounts == {0, 2}

\* EffectData with kind Rumble { strong, weak } and replay { length, delay }:
\* an effect without delay, one with a delay, and one whose length + delay
\* exceeds u16.
Rumble(length, delay) ==
    [length |-> length, delay |-> delay, strong |-> 60000, weak |-> 20000]

EffectDatas == {Rumble(15, 0), Rumble(15, 10), Rumble(U16_MAX, 11)}

\* impl From<EffectData> for Effect; `age` is the time in milliseconds
\* since the Instant stored in `time`.
effect_from(f) ==
    [some |-> TRUE, data |-> f, repeat |-> 0, waiting |-> FALSE, age |-> 0]

saturating_add_wrapping(n, k) == (n + k) % (U16_MAX + 1)

saturating_add(n, k) == IF n + k > U16_MAX THEN U16_MAX ELSE n + k

\* Effect::play_effect: XInputSetState(id, {left: weak, right: strong})
play_effect(e, m) ==
    [left |-> e.data.weak, right |-> e.data.strong, calls |-> m.calls + 1]

\* Effect::play: the effect and the slot's motor afterwards
play(e, n, m) ==
    LET e1 == [e EXCEPT !.repeat = saturating_add(n, 1)] IN
    IF e1.data.delay # 0
    THEN [e |-> [e1 EXCEPT !.waiting = TRUE], m |-> m]
    ELSE [e |-> e1, m |-> play_effect(e1, m)]

\* Effect::stop
stop(e) == [e EXCEPT !.repeat = 0]

Messages ==
    [id : 0 .. (FfSlots - 1), kind : {"Create"}, data : EffectDatas]
    \cup [id : 0 .. (FfSlots - 1), kind : {"Play"}, n : PlayCounts]
    \cup [id : 0 .. (FfSlots - 1), kind : {"Stop", "Drop"}]

-----------------------------------------------------------------------------
(* The timing pass *)

\* fn ms(dur): whole seconds plus the milliseconds of the second's fraction,
\* each cast to u16; `age` is the elapsed time in milliseconds.
ms_secs(age) == (age \div 1000) % (U16_MAX + 1)
ms_sum(age) == ms_secs(age) + (age % 1000)
ms(age) == ms_sum(age) % (U16_MAX + 1)

\* `effect.data.replay.length + effect.data.replay.delay`, a u16 sum, as a
\* release build computes it.
replay_window(e) == (e.data.length + e.data.delay) % (U16_MAX + 1)

\* The outcome of the loop body for one slot: the effect and the motor
\* afterwards, and whether the body panicked.  A u16 addition that overflows
\* panics in a debug build and wraps in a release build; stop_effect is
\* unimplemented!() and panics in both.
timing_slot(e, m, b) ==
    IF ~ e.some THEN [e |-> e, m |-> m, panic |-> FALSE]
    ELSE IF ms_sum(e.age) > U16_MAX /\ b = "debug"
    THEN [e |-> e, m |-> m, panic |-> TRUE]
    ELSE IF e.repeat = 0 THEN [e |-> e, m |-> m, panic |-> FALSE]
    ELSE IF e.data.length + e.data.delay > U16_MAX /\ b = "debug"
    THEN [e |-> e, m |-> m, panic |-> TRUE]
    ELSE LET dur == ms(e.age)
             window == replay_window(e)
             e1 == [e EXCEPT !.repeat = e.repeat - 1]
         IN  IF window > dur
             THEN IF e1.repeat = 0
                  THEN [e |-> e1, m |-> m, panic |-> TRUE]
                  ELSE IF e1.data.delay # 0
                  THEN [e |-> [e1 EXCEPT !.waiting = TRUE], m |-> m, panic |-> TRUE]
                  ELSE [e |-> [e1 EXCEPT !.age = 0], m |-> m, panic |-> FALSE]
             ELSE IF e.data.delay > dur /\ e.waiting
             THEN [e |-> [e EXCEPT !.waiting = FALSE], m |-> play_effect(e, m),
                   panic |-> FALSE]
             ELSE [e |-> e, m |-> m, panic |-> FALSE]

\* `for (effect, id) in effects.iter_mut().zip(0..)` from slot i on: the
\* slots after a panicking one are not reached.
RECURSIVE timing_pass(_, _, _, _)
timing_pass(i, effs, mot, b) ==
    IF i = NumSlots THEN [effects |-> effs, motor |-> mot, panic |-> FALSE]
    ELSE LET r == timing_slot(effs[i], mot[i], b)
             effs1 == [effs EXCEPT ![i] = r.e]
             mot1 == [mot EXCEPT ![i] = r.m]
         IN  IF r.panic
             THEN [effects |-> effs1, motor |-> mot1, panic |-> TRUE]
             ELSE timing_pass(i + 1, effs1, mot1, b)

\* Time passing while the worker sleeps: every stored Instant grows older.
\* The time the worker spends between two sleeps is below a millisecond and
\* counts as none.
older(effs, d) ==
    [i \in Slots |-> IF effs[i].some THEN [effs[i] EXCEPT !.age = @ + d] ELSE effs[i]]

\* thread::sleep(EVENT_THREAD_SLEEP_TIME ms) returns after at least that long.
SleepTimes == {EVENT_THREAD_SLEEP_TIME, 2 * EVENT_THREAD_SLEEP_TIME}

\* A late tick: the sleep may last a second (scheduling jitter, suspend).
LateSleepTimes == {EVENT_THREAD_SLEEP_TIME, 1000}

-----------------------------------------------------------------------------
(* The slot registry: Gilrs::gamepads and Gilrs::not_observed *)

\* Uuid::nil()
Uuid_nil == "00000000-0000-0000-0000-000000000000"

\* format!("XInput Controller {}", id + 1)
ControllerNames == <<"XInput Controller 1", "XInput Controller 2",
                     "XInput Controller 3", "XInput Controller 4">>

\* gamepad::Gamepad::from_inner_status(inner, status, deadzones())
from_inner_status(inner, status) ==
    [name |-> inner.name, uuid |-> inner.uuid, id |-> inner.id,
     ff_sender |-> inner.ff_sender, status |-> status]

\* Gamepad::none(): no name, the nil uuid, no ff_sender, and the id
\* u32::MAX, which is beyond the model checker's integers and written -1 (the
\* same 32 bits read as signed).
Gamepad_none ==
    [name |-> "", uuid |-> Uuid_nil, id |-> -1, ff_sender |-> FALSE]

\* gamepad_new(id, ff_sender); ok: its XInputGetState returned ERROR_SUCCESS.
gamepad_new(i, ok) ==
    from_inner_status(
        [name |-> ControllerNames[i + 1], uuid |-> Uuid_nil, id |-> i,
         ff_sender |-> TRUE],
        IF ok THEN "Connected" ELSE "NotObserved")

is_connected(gp) == gp.status = "Connected"

\* The Gilrs struct that Gilrs::new returns.
NewGilrs(ok) ==
    [gamepads |-> [i \in Slots |-> gamepad_new(i, ok[i])],
     not_observed |-> from_inner_status(Gamepad_none, "NotObserved")]

-----------------------------------------------------------------------------
(* History variables *)

NoPlay == [n |-> -1, calls |-> 0]
\* No device has settled yet.
Unsettled == [on |-> FALSE, slot |-> 0, at |-> 0, held |-> FALSE, conn |-> 0]
\* No next_event call was made yet.
NotCalled == [some |-> FALSE, called |-> FALSE]
NoSnapshot == [some |-> FALSE]
NoDrop == [st |-> "none", at |-> 0]

InitHist(conn0) ==
    [init    |-> conn0,                          \* `connected` at start
     lastSeq |-> [i \in Slots |-> -1],           \* packet of slot's last read
     own     |-> [i \in Slots |-> NoSnapshot],   \* what the slot's last read returned
     held    |-> [i \in Slots |-> {}],           \* buttons last reported Pressed
     ran     |-> FALSE,                          \* last step ran compare_state
     reads   |-> [i \in Slots |-> << >>],        \* present/absent reads, changes only
     conn    |-> [i \in Slots |-> << >>],        \* connection events sent
     played  |-> [i \in Slots |-> NoPlay],       \* the Play in force
     dropped |-> [i \in Slots |-> NoDrop],       \* the last Drop
     sent    |-> 0,                              \* commands sent
     drained |-> 0,                              \* commands handled by this tick's drain
     owed    |-> << >>,                          \* events sent, not yet returned
     fifo    |-> TRUE,                           \* each next_event returned the oldest
                                                 \* of them, or nothing if none
     got     |-> NotCalled,                      \* what next_event last returned
     settled |-> Unsettled,                      \* the device that is there to stay
     look    |-> [op |-> "none"]]                \* the last slot lookup and its result

\* The buttons of slot i whose last button event was ButtonPressed, after
\* the events evs.
RECURSIVE HeldAfter(_, _, _)
HeldAfter(held, i, evs) ==
    IF evs = << >> THEN held
    ELSE LET ev == Head(evs)
             h1 == IF ev[1] # i THEN held
                   ELSE IF ev[2].type = "ButtonPressed" THEN held \cup {ev[2].button}
                   ELSE IF ev[2].type = "ButtonReleased" THEN held \ {ev[2].button}
                   ELSE held
         IN  HeldAfter(h1, i, Tail(evs))

Capped(log, x) ==
    IF Len(log) < MaxLog /\ (log = << >> \/ log[Len(log)] # x)
    THEN Append(log, x) ELSE log

LogRead(log, v) ==
    IF v = SUCCESS THEN Capped(log, "P")
    ELSE IF v = NOT_CONNECTED THEN Capped(log, "A")
    ELSE log

RECURSIVE LogConn(_, _, _)
LogConn(log, i, evs) ==
    IF evs = << >> THEN log
    ELSE LET ev == Head(evs)
             log1 == IF ev[1] = i /\ ev[2] \in {Connected, Disconnected} /\ Len(log) < MaxLog
                     THEN Append(log, IF ev[2] = Connected THEN "C" ELSE "D")
                     ELSE log
         IN  LogConn(log1, i, Tail(evs))

\* The scheduler state of §4.4 an effect record is in.
SchedState(e) ==
    IF ~ e.some \/ e.repeat = 0 THEN "Idle"
    ELSE IF e.waiting THEN "WaitingForDelay" ELSE "Playing"

-----------------------------------------------------------------------------
(* The worker thread *)

\* Gilrs::new: `connected[i]` is whether gamepad_new's XInputGetState
\* succeeded.
Init(adapter) ==
    /\ pc = "poll"
    /\ id = 0
    /\ gilrs \in {NewGilrs(ok) : ok \in
                    {c \in [Slots -> BOOLEAN] :
                       \A i \in Slots : \E r \in adapter[i] : c[i] = (r.val = SUCCESS)}}
    /\ connected = [i \in Slots |-> is_connected(gilrs.gamepads[i])]
    /\ prev_state = ZeroState
    /\ state = ZeroState
    /\ val = NO_READ
    /\ counter = 0
    /\ effects = [i \in Slots |-> None]
    /\ ffrx = << >>
    /\ tx = << >>
    /\ motor = [i \in Slots |-> [left |-> 0, right |-> 0, calls |-> 0]]
    /\ build \in {"debug", "release"}
    /\ hist = InitHist(connected)

should_query_unthrottled(c, n) == TRUE

should_query_connected_only(c, n) == c

\* `*connected.get_unchecked(id) || counter % ITERATIONS_TO_CHECK_IF_CONNECTED == 0`
should_query(c, n) == c \/ n % ITERATIONS_TO_CHECK_IF_CONNECTED = 0

next_connected_any_failure(was, v) == v = SUCCESS

\* The slot's `connected` flag after a read that returned v.
next_connected(was, v) ==
    IF v = SUCCESS THEN TRUE
    ELSE IF v = NOT_CONNECTED /\ was THEN FALSE
    ELSE was

connection_events_every_read(i, was, v) ==
    IF v = SUCCESS THEN << <<i, Connected>> >>
    ELSE IF v = NOT_CONNECTED /\ was THEN << <<i, Disconnected>> >>
    ELSE << >>

connection_events_any_failure(i, was, v) ==
    IF v = SUCCESS /\ ~ was THEN << <<i, Connected>> >>
    ELSE IF v # SUCCESS /\ was THEN << <<i, Disconnected>> >>
    ELSE << >>

\* The Connected / Disconnected event a read that returned v sends.
connection_events(i, was, v) ==
    IF v = SUCCESS /\ ~ was THEN << <<i, Connected>> >>
    ELSE IF v = NOT_CONNECTED /\ was THEN << <<i, Disconnected>> >>
    ELSE << >>

\* `state.dwPacketNumber != prev_state.dwPacketNumber`
packet_changed(st, prev) == st.dwPacketNumber # prev.dwPacketNumber

\* One iteration of `for id in 0..4` in the worker's loop.  A failing
\* XInputGetState leaves the buffer `state` as it was.
PollSlot(adapter) ==
    /\ pc = "poll"
    /\ Len(tx) < MaxPending
    /\ \E r \in IF should_query(connected[id], counter)
                THEN adapter[id] ELSE {Failure(NO_READ)} :
         LET ok   == r.val = SUCCESS
             st   == IF ok THEN r.st ELSE state
             diff == ok /\ packet_changed(st, prev_state)
             tx1  == tx \o connection_events(id, connected[id], r.val)
             tx2  == IF diff
                     THEN compare_state(id, st.Gamepad, prev_state.Gamepad, tx1)
                     ELSE tx1
         IN  /\ val' = r.val
             /\ state' = st
             /\ connected' = [connected EXCEPT ![id] = next_connected(@, r.val)]
             /\ tx' = tx2
             /\ prev_state' = IF diff THEN st ELSE prev_state
             /\ hist' = [hist EXCEPT
                   !.ran = diff,
                   !.lastSeq[id] = IF ok THEN st.dwPacketNumber ELSE @,
                   !.own[id] = IF ok THEN [some |-> TRUE, st |-> st]
                               ELSE IF r.val = NO_READ THEN @ ELSE NoSnapshot,
                   !.held[id] = HeldAfter(@, id, SubSeq(tx2, Len(tx) + 1, Len(tx2))),
                   !.reads[id] = LogRead(@, r.val),
                   !.conn[id] = LogConn(@, id, SubSeq(tx2, Len(tx) + 1, Len(tx2))),
                   !.owed = @ \o SubSeq(tx2, Len(tx) + 1, Len(tx2)),
                   !.settled.conn =
                       IF hist.settled.on /\ hist.settled.slot = id
                          /\ connection_events(id, connected[id], r.val) = << <<id, Connected>> >>
                       THEN @ + 1 ELSE @]
    /\ IF id = NumSlots - 1
       THEN pc' = "drain" /\ id' = 0
       ELSE pc' = "poll" /\ id' = id + 1
    /\ UNCHANGED <<counter, effects, ffrx, motor, build, gilrs>>

drop_effect_keeps_record(e) == IF e.some THEN stop(e) ELSE e

\* FfMessageType::Drop => effects[msg.id as usize] = None
drop_effect(e) == None

\* The effect array and motors after one FfMessage.
apply_message(effs, mot, msg) ==
    LET e == effs[msg.id] IN
    CASE msg.kind = "Create" ->
           [effects |-> [effs EXCEPT ![msg.id] = effect_from(msg.data)], motor |-> mot]
      [] msg.kind = "Play" ->
           IF e.some
           THEN LET r == play(e, msg.n, mot[msg.id])
                IN  [effects |-> [effs EXCEPT ![msg.id] = r.e],
                     motor |-> [mot EXCEPT ![msg.id] = r.m]]
           ELSE [effects |-> effs, motor |-> mot]
      [] msg.kind = "Stop" ->
           IF e.some
           THEN [effects |-> [effs EXCEPT ![msg.id] = stop(e)], motor |-> mot]
           ELSE [effects |-> effs, motor |-> mot]
      [] msg.kind = "Drop" ->
           [effects |-> [effs EXCEPT ![msg.id] = drop_effect(e)], motor |-> mot]

\* One iteration of `while let Ok(msg) = ffrx.try_recv()`.
DrainCmd ==
    /\ pc = "drain"
    /\ ffrx # << >>
    /\ LET msg == Head(ffrx)
           r   == apply_message(effects, motor, msg)
       IN  /\ effects' = r.effects
           /\ motor' = r.motor
           /\ hist' = [hist EXCEPT
                 !.ran = FALSE,
                 !.drained = @ + 1,
                 !.played[msg.id] =
                     IF msg.kind = "Play" /\ effects[msg.id].some
                     THEN [n |-> msg.n, calls |-> motor[msg.id].calls]
                     ELSE IF msg.kind = "Play" THEN @ ELSE NoPlay,
                 !.dropped[msg.id] =
                     IF msg.kind = "Drop"
                     THEN [st |-> SchedState(effects[msg.id]), at |-> counter]
                     ELSE @]
    /\ ffrx' = Tail(ffrx)
    /\ val' = NO_READ
    /\ UNCHANGED <<pc, id, connected, prev_state, state, counter, tx, build, gilrs>>

\* u64::wrapping_add.  The counter wraps after 2^64 iterations of 10 ms or
\* more each; every horizon of the model ends long before, so the sum is
\* written without the modulus.
wrapping_add(n, k) == n + k

\* try_recv finds the channel empty; then the timing pass, the counter's
\* increment and the sleep.  A panic ends the thread where it stands.  The
\* worker is followed for `horizon` iterations, its sleep lasts one of
\* `sleeps` milliseconds, and no effect grows older than `cap`.
Tick(horizon, sleeps, cap) ==
    /\ pc = "drain"
    /\ ffrx = << >>
    /\ counter < horizon
    /\ LET r == timing_pass(0, effects, motor, build) IN
         /\ motor' = r.motor
         /\ IF r.panic
            THEN /\ pc' = "panicked"
                 /\ effects' = r.effects
                 /\ counter' = counter
            ELSE /\ pc' = "poll"
                 /\ counter' = wrapping_add(counter, 1)
                 /\ \E d \in sleeps :
                      /\ \A i \in Slots : r.effects[i].some => r.effects[i].age + d <= cap
                      /\ effects' = older(r.effects, d)
    /\ id' = 0
    /\ val' = NO_READ
    /\ hist' = [hist EXCEPT !.ran = FALSE, !.drained = 0]
    /\ UNCHANGED <<connected, prev_state, state, ffrx, tx, build, gilrs>>

\* The tick on time: the sleep lasts 10 or 20 ms.
FinishTick(horizon) == Tick(horizon, SleepTimes, MaxAge)

-----------------------------------------------------------------------------
(* The application *)

\* An effect command enters the bounded channel; a full channel, or one whose
\* receiver is gone, refuses it.
Send(budget) ==
    /\ hist.sent < budget
    /\ \E msg \in Messages :
         ffrx' = IF Len(ffrx) < FfChannelCapacity /\ pc # "panicked"
                 THEN Append(ffrx, msg) ELSE ffrx
    /\ hist' = [hist EXCEPT !.sent = @ + 1]
    /\ UNCHANGED <<pc, id, connected, prev_state, state, val, counter, effects,
                   tx, motor, build, gilrs>>

SendCmd == Send(MaxCmds)

Some(ev) == [some |-> TRUE, ev |-> ev]

try_recv_newest(chan) ==
    IF chan = << >> THEN [ret |-> None, chan |-> chan]
    ELSE [ret |-> Some(chan[Len(chan)]), chan |-> SubSeq(chan, 1, Len(chan) - 1)]

\* Receiver::try_recv().ok(): the oldest message if there is one, and the
\* channel afterwards; it never waits.
try_recv(chan) ==
    IF chan = << >> THEN [ret |-> None, chan |-> chan]
    ELSE [ret |-> Some(Head(chan)), chan |-> Tail(chan)]

\* A device is attached for good: from now on every read of its slot
\* succeeds.  The history keeps the tick, whether the worker held the slot as
\* connected, and counts the Connected events sent for the slot since.
Settle ==
    /\ ~ hist.settled.on
    /\ pc # "panicked"
    /\ hist' = [hist EXCEPT !.settled =
                   [on |-> TRUE, slot |-> PlugSlot, at |-> counter,
                    held |-> connected[PlugSlot], conn |-> 0]]
    /\ UNCHANGED <<pc, id, connected, prev_state, state, val, counter, effects,
                   ffrx, tx, motor, build, gilrs>>

\* Gilrs::next_event: self.rx.try_recv().ok()
NextEvent ==
    /\ LET r == try_recv(tx) IN
         /\ tx' = r.chan
         /\ hist' = [hist EXCEPT
               !.got = r.ret,
               !.fifo = @ /\ (IF hist.owed = << >> THEN r.ret = None
                               ELSE r.ret = Some(Head(hist.owed))),
               !.owed = IF r.ret.some /\ @ # << >> THEN Tail(@) ELSE @]
    /\ UNCHANGED <<pc, id, connected, prev_state, state, val, counter, effects,
                   ffrx, motor, build, gilrs>>

\* A reference into the Gilrs struct: to gamepads[i] or to not_observed.
SlotRef(i) == [field |-> "gamepads", index |-> i]
SentinelRef == [field |-> "not_observed"]

deref(g, ref) ==
    IF ref.field = "gamepads" THEN g.gamepads[ref.index] ELSE g.not_observed

store(g, ref, gp) ==
    IF ref.field = "gamepads"
    THEN [g EXCEPT !.gamepads[ref.index] = gp]
    ELSE [g EXCEPT !.not_observed = gp]

\* <[T]>::get and get_mut: a reference to the element if i is in range.
slice_get(g, i) ==
    IF i \in DOMAIN g.gamepads THEN Some(SlotRef(i)) ELSE None

\* Option::unwrap_or
unwrap_or(o, d) == IF o.some THEN o.ev ELSE d

gamepad_clamped(g, i) ==
    IF i \in DOMAIN g.gamepads THEN SlotRef(i) ELSE SlotRef(NumSlots - 1)

\* Gilrs::gamepad: self.gamepads.get(id).unwrap_or(&self.not_observed)
gamepad(g, i) == unwrap_or(slice_get(g, i), SentinelRef)

\* Gilrs::gamepad_mut: self.gamepads.get_mut(id).unwrap_or(&mut self.not_observed)
gamepad_mut(g, i) == unwrap_or(slice_get(g, i), SentinelRef)

\* Gilrs::last_gamepad_hint: self.gamepads.len()
last_gamepad_hint(g) == Cardinality(DOMAIN g.gamepads)

\* Gamepad::set_mapping and Gamepad::set_ff_gain, the two methods that take
\* &mut self: the gamepad afterwards and the result.
set_mapping(gp) == [gp |-> gp, ret |-> "Err(MappingError::NotImplemented)"]
set_ff_gain(gp) == [gp |-> gp, ret |-> "Err(Error::FfNotSupported)"]

\* The application calls gamepad(i).
GamepadGet ==
    /\ \E i \in 0 .. MaxId :
         LET ref == gamepad(gilrs, i) IN
         hist' = [hist EXCEPT !.look =
                    [op |-> "gamepad", id |-> i, ref |-> ref, gp |-> deref(gilrs, ref)]]
    /\ UNCHANGED <<pc, id, connected, prev_state, state, val, counter, effects,
                   ffrx, tx, motor, build, gilrs>>

\* The application calls gamepad_mut(i) and, through the reference it gets,
\* one of the methods that take &mut self.
GamepadMut ==
    /\ \E i \in 0 .. MaxId : \E method \in {"set_mapping", "set_ff_gain"} :
         LET ref == gamepad_mut(gilrs, i)
             r   == IF method = "set_mapping"
                    THEN set_mapping(deref(gilrs, ref))
                    ELSE set_ff_gain(deref(gilrs, ref))
         IN  /\ gilrs' = store(gilrs, ref, r.gp)
             /\ hist' = [hist EXCEPT !.look =
                          [op |-> "gamepad_mut", id |-> i, ref |-> ref,
                           gp |-> deref(gilrs, ref), ret |-> r.ret]]
    /\ UNCHANGED <<pc, id, connected, prev_state, state, val, counter, effects,
                   ffrx, tx, motor, build>>

\* The application calls last_gamepad_hint().
LastGamepadHint ==
    /\ hist' = [hist EXCEPT !.look =
                   [op |-> "last_gamepad_hint", ret |-> last_gamepad_hint(gilrs)]]
    /\ UNCHANGED <<pc, id, connected, prev_state, state, val, counter, effects,
                   ffrx, tx, motor, build, gilrs>>

-----------------------------------------------------------------------------
(* Specifications *)

\* The whole program.  Its state space is the product of those of the three
\* specifications below, each of which fixes the part of the environment
\* (adapter, application) that the other parts of the worker do not read.
Next ==
    \/ PollSlot(FullAdapter)
    \/ DrainCmd
    \/ FinishTick(MaxTicks)
    \/ SendCmd
    \/ NextEvent

Spec == Init(FullAdapter) /\ [][Next]_vars

\* Connection tracking: devices come and go, the application sends no
\* effect command.
NextConn ==
    \/ PollSlot(ConnAdapter)
    \/ FinishTick(MaxTicks)
    \/ NextEvent

SpecConn == Init(ConnAdapter) /\ [][NextConn]_vars

\* Reconnection: one device that comes and goes and at some moment is
\* attached for good.
NextPlug ==
    \/ PollSlot(StableAdapter(hist.settled))
    \/ FinishTick(MaxTicks)
    \/ NextEvent
    \/ Settle

SpecPlug == Init(StableAdapter(Unsettled)) /\ [][NextPlug]_vars

\* The slot registry: the application looks slots up while the worker runs
\* and devices come and go.
NextFacade ==
    \/ PollSlot(ConnAdapter)
    \/ FinishTick(MaxFacadeTicks)
    \/ NextEvent
    \/ GamepadGet
    \/ GamepadMut
    \/ LastGamepadHint

SpecFacade == Init(ConnAdapter) /\ [][NextFacade]_vars

\* Snapshot diffing: devices report changing snapshots, the application
\* sends no effect command.
NextPoll ==
    \/ PollSlot(FullAdapter)
    \/ FinishTick(MaxPollTicks)
    \/ NextEvent

SpecPoll == Init(FullAdapter) /\ [][NextPoll]_vars

\* Force feedback: the devices are attached and idle, the application sends
\* effect commands.
NextFF ==
    \/ PollSlot(IdleAdapter)
    \/ DrainCmd
    \/ FinishTick(MaxFfTicks)
    \/ SendCmd

SpecFF == Init(IdleAdapter) /\ [][NextFF]_vars

\* Force feedback with late ticks.
NextLate ==
    \/ PollSlot(IdleAdapter)
    \/ DrainCmd
    \/ Tick(MaxLateTicks, LateSleepTimes, MaxLateAge)
    \/ SendCmd

SpecLate == Init(IdleAdapter) /\ [][NextLate]_vars

\* Force feedback with more commands sent than the channel holds at a time.
NextBurst ==
    \/ PollSlot(IdleAdapter)
    \/ DrainCmd
    \/ FinishTick(MaxFfTicks)
    \/ Send(MaxBurst)

SpecBurst == Init(IdleAdapter) /\ [][NextBurst]_vars

-----------------------------------------------------------------------------
(* Effect::play and Effect::stop as pure functions: the worker stands at   *)
(* its drain with one Play or Stop command in the channel.                 *)

PlayArgs == {0, 1, 2, U16_MAX - 1, U16_MAX}

\* The records an effect slot can hold when a command arrives: none, or an
\* effect created this tick or one sleep ago; one without delay has never
\* waited, one with a delay waits while it has repetitions left.
EffectStates ==
    {None} \cup
    {[effect_from(d) EXCEPT !.repeat = r, !.waiting = w, !.age = a] :
        d \in {f \in EffectDatas : f.delay = 0}, r \in {0, 1, 3}, w \in {FALSE},
        a \in {0, EVENT_THREAD_SLEEP_TIME}} \cup
    {[effect_from(d) EXCEPT !.repeat = r, !.waiting = w, !.age = a] :
        d \in {f \in EffectDatas : f.delay # 0}, r \in {0, 1, 3}, w \in {TRUE},
        a \in {0, EVENT_THREAD_SLEEP_TIME}} \cup
    {[effect_from(d) EXCEPT !.age = a] :
        d \in {f \in EffectDatas : f.delay # 0}, a \in {0, EVENT_THREAD_SLEEP_TIME}}

\* The motor of a slot whose effect plays without delay was given the
\* effect's magnitudes once.
MotorFor(e) ==
    IF e.some /\ e.repeat > 0 /\ e.data.delay = 0
    THEN play_effect(e, [left |-> 0, right |-> 0, calls |-> 0])
    ELSE [left |-> 0, right |-> 0, calls |-> 0]

InitPlay ==
    /\ pc = "drain"
    /\ id = 0
    /\ gilrs = NewGilrs([i \in Slots |-> TRUE])
    /\ connected = [i \in Slots |-> is_connected(gilrs.gamepads[i])]
    /\ prev_state = ZeroState
    /\ state = ZeroState
    /\ val = SUCCESS
    /\ counter = 1
    /\ \E s \in 0 .. (FfSlots - 1) : \E e \in EffectStates :
         /\ effects = [i \in Slots |-> IF i = s THEN e ELSE None]
         /\ motor = [i \in Slots |-> MotorFor(effects[i])]
    /\ ffrx \in {<<m>> : m \in
                   [id : 0 .. (FfSlots - 1), kind : {"Play"}, n : PlayArgs]
                   \cup [id : 0 .. (FfSlots - 1), kind : {"Stop"}]}
    /\ tx = << >>
    /\ build \in {"debug", "release"}
    /\ hist = InitHist(connected)

NextPlay == DrainCmd

SpecPlay == InitPlay /\ [][NextPlay]_vars

-----------------------------------------------------------------------------
(* Gilrs::compare_state as a pure function: the worker stands at the call  *)
(* of line 160 with `state` just read and `prev_state` the stored snapshot. *)

TriggerValues == {0, 128, U8_MAX}
StickValues == {-32768, 0, 16384, I16_MAX}

BitSet(w, k) == (w \div (2 ^ k)) % 2 = 1
Flip(w, k) == IF BitSet(w, k) THEN w - 2 ^ k ELSE w + 2 ^ k
DiffBits(a, b) == {k \in 0 .. 15 : BitSet(a, k) # BitSet(b, k)}

BusyPad == [wButtons |-> 5121, bLeftTrigger |-> U8_MAX, bRightTrigger |-> 0,
            sThumbLX |-> I16_MAX, sThumbLY |-> -32768, sThumbRX |-> 0,
            sThumbRY |-> 16384]

BasePads == {ZeroPad, BusyPad}

\* The snapshots that differ from pg in at most MaxDiff fields.
Variations(pg) ==
    {g \in [wButtons : {pg.wButtons, U16_MAX - pg.wButtons}
                       \cup {Flip(pg.wButtons, k) : k \in 0 .. 15},
            bLeftTrigger : TriggerValues, bRightTrigger : TriggerValues,
            sThumbLX : StickValues, sThumbLY : StickValues,
            sThumbRX : StickValues, sThumbRY : StickValues] :
        Cardinality({f \in PadFields : g[f] # pg[f]}) <= MaxDiff}

InitDiff ==
    /\ pc = "diff"
    /\ id \in Slots
    /\ \E pg \in BasePads : \E g \in Variations(pg) :
         /\ prev_state = [dwPacketNumber |-> 0, Gamepad |-> pg]
         /\ state = [dwPacketNumber |-> 1, Gamepad |-> g]
    /\ gilrs = NewGilrs([i \in Slots |-> TRUE])
    /\ connected = [i \in Slots |-> is_connected(gilrs.gamepads[i])]
    /\ val = SUCCESS
    /\ counter = 0
    /\ effects = [i \in Slots |-> None]
    /\ ffrx = << >>
    /\ tx = << >>
    /\ motor = [i \in Slots |-> [left |-> 0, right |-> 0, calls |-> 0]]
    /\ build = "release"
    /\ hist = InitHist(connected)

\* Self::compare_state(id, &state.Gamepad, &prev_state.Gamepad, &tx)
Synth ==
    /\ pc = "diff"
    /\ tx' = compare_state(id, state.Gamepad, prev_state.Gamepad, tx)
    /\ pc' = "done"
    /\ hist' = [hist EXCEPT
          !.owed = @ \o compare_state(id, state.Gamepad, prev_state.Gamepad, << >>)]
    /\ UNCHANGED <<id, connected, prev_state, state, val, counter, effects, ffrx,
                   motor, build, gilrs>>

NextDiff == Synth

SpecDiff == InitDiff /\ [][NextDiff]_vars

\* compare_state, and the application taking the events it sent.
NextOrder ==
    \/ Synth
    \/ NextEvent

SpecOrder == InitDiff /\ [][NextOrder]_vars

-----------------------------------------------------------------------------
(* Claims about Event Synthesis, checked under SpecDiff and SpecOrder *)

AxisFieldSet == {AxisFields[k] : k \in 1 .. Len(AxisFields)}
TriggerFields == {"bLeftTrigger", "bRightTrigger"}

\* What the claims expect of each axis field: its axis and its maximum.
ClaimedAxis(f) ==
    CASE f = "bLeftTrigger" -> "LeftTrigger2"
      [] f = "bRightTrigger" -> "RightTrigger2"
      [] f = "sThumbLX" -> "LeftStickX"
      [] f = "sThumbLY" -> "LeftStickY"
      [] f = "sThumbRX" -> "RightStickX"
      [] f = "sThumbRY" -> "RightStickY"
ClaimedMax(f) == IF f \in TriggerFields THEN 255 ELSE 32767

DiffFields(g, pg) == {f \in PadFields : g[f] # pg[f]}

\* C8: two snapshots that differ in exactly one axis field and in nothing
\* else yield exactly one event, an AxisChanged for that axis that carries
\* the new raw value over the axis maximum (255 for triggers, 32767 for
\* sticks), and so no button event.
C8_OneAxisOneEvent ==
    pc = "done" =>
      \A f \in AxisFieldSet :
        DiffFields(state.Gamepad, prev_state.Gamepad) = {f} =>
          /\ Len(tx) = 1
          /\ tx[1][1] = id
          /\ tx[1][2].type = "AxisChanged"
          /\ tx[1][2].axis = ClaimedAxis(f)
          /\ tx[1][2].num = state.Gamepad[f]
          /\ tx[1][2].den = ClaimedMax(f)

C8_Witness ==
    /\ pc = "done"
    /\ DiffFields(state.Gamepad, prev_state.Gamepad) = {"sThumbLY"}
    /\ prev_state.Gamepad.wButtons # 0
    /\ Len(tx) = 1

\* The bits of wButtons compare_state looks at: all but 0x0400 and 0x0800.
TrackedBits == (0 .. 9) \cup (12 .. 15)

OneButtonEvent(k) ==
    /\ Len(tx) = 1
    /\ tx[1][1] = id
    /\ tx[1][2].type = IF BitSet(state.Gamepad.wButtons, k)
                       THEN "ButtonPressed" ELSE "ButtonReleased"
    /\ tx[1][2].code = 2 ^ k

OneBitDiffers(k) ==
    /\ DiffFields(state.Gamepad, prev_state.Gamepad) = {"wButtons"}
    /\ DiffBits(state.Gamepad.wButtons, prev_state.Gamepad.wButtons) = {k}

\* C9 as claimed: two snapshots whose 16-bit button masks differ in exactly
\* one bit, whichever it is, and that are otherwise equal yield exactly one
\* event, ButtonPressed if the bit is now set and ButtonReleased if it is
\* now clear, carrying that bit's mask.
C9_Original ==
    pc = "done" => \A k \in 0 .. 15 : OneBitDiffers(k) => OneButtonEvent(k)

\* C9 as amended: the same for each of the fourteen bits compare_state
\* tracks; a change of bit 0x0400 or 0x0800 alone yields no event at all.
C9_OneTrackedBitOneEvent ==
    pc = "done" =>
      \A k \in 0 .. 15 :
        OneBitDiffers(k) =>
          IF k \in TrackedBits THEN OneButtonEvent(k) ELSE tx = << >>

C9_Witness ==
    /\ pc = "done"
    /\ OneBitDiffers(12)
    /\ ~ BitSet(state.Gamepad.wButtons, 12)
    /\ Len(tx) = 1

\* C10: every AxisChanged event carries a value inside the documented
\* range: between -1 and 1 for the four sticks, between 0 and 1 for the
\* two triggers.
C10_AxisValueInRange ==
    \A k \in 1 .. Len(tx) :
      tx[k][2].type = "AxisChanged" =>
        IF tx[k][2].axis \in {"LeftTrigger2", "RightTrigger2"}
        THEN 0 <= tx[k][2].num /\ tx[k][2].num <= tx[k][2].den
        ELSE - tx[k][2].den <= tx[k][2].num /\ tx[k][2].num <= tx[k][2].den

\* The order §4.3 gives: the six axes, then the fourteen buttons (gilrs calls
\* the shoulder buttons LeftTrigger and RightTrigger).
CanonicalOrder ==
    <<"LeftTrigger2", "RightTrigger2", "LeftStickX", "LeftStickY",
      "RightStickX", "RightStickY",
      "DPadUp", "DPadDown", "DPadLeft", "DPadRight", "Start", "Select",
      "LeftThumb", "RightThumb", "LeftTrigger", "RightTrigger",
      "South", "East", "West", "North">>

EventName(ev) == IF ev.type = "AxisChanged" THEN ev.axis ELSE ev.button

Rank(ev) == CHOOSE k \in 1 .. Len(CanonicalOrder) : CanonicalOrder[k] = EventName(ev)

InCanonicalOrder(q) ==
    \A j, k \in 1 .. Len(q) :
      j < k => (q[j][1] = q[k][1] /\ Rank(q[j][2]) < Rank(q[k][2]))

\* The event next_event returned last, if any, followed by those that wait.
ReturnedThenWaiting ==
    (IF hist.got.some THEN <<hist.got.ev>> ELSE << >>) \o tx

\* C11: the events of one compare_state run enter the channel in canonical
\* order, axes first (left trigger, right trigger, left stick x, y, right
\* stick x, y) and then buttons (dpad up, down, left, right, start, select,
\* left thumb, right thumb, left shoulder, right shoulder, south, east, west,
\* north), and next_event hands them to the application in that order: the
\* event returned last ranks before every event that still waits.
C11_CanonicalOrder ==
    pc = "done" => InCanonicalOrder(ReturnedThenWaiting)

C11_Witness ==
    /\ pc = "done"
    /\ Cardinality(DiffFields(state.Gamepad, prev_state.Gamepad)) = 2
    /\ hist.got.some
    /\ hist.got.ev[2].type = "AxisChanged"
    /\ Len(tx) = 14

-----------------------------------------------------------------------------
(* Claims about the worker *)

\* The events a step of the worker sends.
Emitted ==
    IF Len(tx') >= Len(tx) THEN SubSeq(tx', Len(tx) + 1, Len(tx')) ELSE << >>

Sends(i, ev) == \E k \in 1 .. Len(Emitted) : Emitted[k] = <<i, ev>>

\* C1: the worker never faults, whatever the adapter answers and whatever
\* Create / Play / Stop / Drop commands reach it.
C1_WorkerNeverFaults == pc # "panicked"

Trim(log) == IF log # << >> /\ log[1] = "A" THEN Tail(log) ELSE log

\* C2 as claimed: a slot whose reads go present, absent, present makes the
\* worker send exactly Connected, Disconnected, Connected for it, however
\* many reads with an unchanged result lie between.
C2_Original ==
    \A i \in Slots :
      Trim(hist.reads[i]) = <<"P", "A", "P">> => hist.conn[i] = <<"C", "D", "C">>

\* C2 as amended: the same for a slot the worker holds as disconnected when
\* it starts.
C2_ConnectDisconnectConnect ==
    \A i \in Slots :
      (~ hist.init[i] /\ Trim(hist.reads[i]) = <<"P", "A", "P">>)
        => hist.conn[i] = <<"C", "D", "C">>

C2_Witness ==
    /\ ~ hist.init[0]
    /\ hist.reads[0] = <<"P", "A", "P">>
    /\ hist.conn[0] = <<"C", "D", "C">>
    /\ counter = ITERATIONS_TO_CHECK_IF_CONNECTED

\* The step is the worker's iteration for slot i and its read returned v.
ReadOf(i, v) == pc = "poll" /\ id = i /\ (id' # id \/ pc' # pc) /\ val' = v

\* C3: a slot's connected flag rises, and Connected is sent, only in a step
\* whose read of that slot succeeded; it falls, and Disconnected is sent,
\* only in a step whose read of that slot reported the device absent; no
\* other step changes the flag or sends either event.
C3_FlagFollowsRead ==
    [][\A i \in Slots :
         /\ (~ connected[i] /\ connected'[i])
              <=> (~ connected[i] /\ ReadOf(i, SUCCESS))
         /\ (connected[i] /\ ~ connected'[i])
              <=> (connected[i] /\ ReadOf(i, NOT_CONNECTED))
         /\ Sends(i, Connected) <=> (~ connected[i] /\ connected'[i])
         /\ Sends(i, Disconnected) <=> (connected[i] /\ ~ connected'[i])]_vars

C3_Witness ==
    /\ hist.conn[0] = <<"C", "D">>
    /\ ~ connected[0]
    /\ val = NOT_CONNECTED
    /\ pc = "poll" /\ id = 1

\* The step is the worker's iteration for slot i and runs compare_state.
RunsDiff(i) == pc = "poll" /\ id = i /\ (id' # id \/ pc' # pc) /\ hist.ran'

\* C4: compare_state runs for a slot only in the step that reads the slot,
\* and only if the packet number read differs from the one the same slot
\* reported at its previous read.
C4_DiffOnlyOnOwnChange ==
    [][\A i \in Slots :
         RunsDiff(i) =>
           /\ val' = SUCCESS
           /\ state'.dwPacketNumber # hist.lastSeq[i]]_vars

\* The step is the timing pass.
TimingStep == pc = "drain" /\ ffrx = << >> /\ pc' # "drain"

\* C5: after Create and Play(0) of an effect without delay, one hardware
\* play command is issued, the repeat counter reaches 0 only when a length
\* window has elapsed, and the worker goes on with the slot Idle.
C5_PlayOnceThenIdle ==
    [][\A i \in Slots :
         (/\ TimingStep
          /\ effects[i].some /\ effects'[i].some
          /\ effects[i].data.delay = 0
          /\ hist.played[i].n = 0
          /\ effects[i].repeat > 0 /\ effects'[i].repeat = 0)
         => /\ ms(effects[i].age) >= effects[i].data.length
            /\ motor'[i].calls = hist.played[i].calls + 1
            /\ pc' # "panicked"]_vars

\* C6: after Create and Play(2) of an effect with a delay, each of the three
\* play phases is started by a hardware play command: the repetitions used
\* up never outnumber the play commands issued since the Play.
C6_ThreePhases ==
    \A i \in Slots :
      (/\ effects[i].some
       /\ effects[i].data.delay > 0
       /\ hist.played[i].n = 2)
      => 3 - effects[i].repeat <= motor[i].calls - hist.played[i].calls

\* The step is the drain's, for a message of this kind to slot i.
ProcessesFor(i, kind) ==
    /\ pc = "drain" /\ ffrx # << >> /\ ffrx' = Tail(ffrx)
    /\ Head(ffrx).kind = kind /\ Head(ffrx).id = i

\* C7: the step that processes Drop for a slot leaves the slot without an
\* effect record and issues no vibration command; and no step issues one for
\* a slot that has no record, or whose record has not been played since it
\* was created, other than the step that processes a Play for it.
C7_DropClears ==
    [][\A i \in Slots :
         /\ ProcessesFor(i, "Drop")
              => (effects'[i] = None /\ motor'[i] = motor[i])
         /\ ~ effects[i].some => motor'[i] = motor[i]
         /\ (hist.played[i] = NoPlay /\ ~ ProcessesFor(i, "Play"))
              => motor'[i] = motor[i]]_vars

C7_Witness ==
    \E i \in Slots :
      /\ hist.dropped[i].st = "Playing"
      /\ ~ effects[i].some
      /\ counter > hist.dropped[i].at
      /\ motor[i].calls = 1

\* The step is the worker's iteration for slot i.
PollOf(i) == pc = "poll" /\ id = i /\ (id' # id \/ pc' # pc)

SendsFor(i) == \E k \in 1 .. Len(Emitted) : Emitted[k][1] = i

\* C12: the worker's iteration for a slot it holds as connected reads the
\* adapter on every tick; its iteration for a slot it holds as disconnected
\* reads the adapter only when the tick counter is a multiple of 100; and in
\* a tick whose counter is not, no step reads the adapter for a disconnected
\* slot, sends an event for it or changes its flag.
C12_Throttle ==
    [][\A i \in Slots :
         /\ (PollOf(i) /\ connected[i]) => val' # NO_READ
         /\ (PollOf(i) /\ ~ connected[i] /\ val' # NO_READ) => counter % 100 = 0
         /\ (~ connected[i] /\ counter % 100 # 0)
              => (~ SendsFor(i) /\ connected'[i] = connected[i]
                  /\ (PollOf(i) => val' = NO_READ))]_vars

C12_Witness ==
    /\ pc = "poll" /\ id = 1
    /\ val = NO_READ
    /\ counter = 50
    /\ ~ connected[0]
    /\ hist.conn[0] = <<"C", "D">>

\* C13: once every read of a slot would succeed, a slot the worker held as
\* disconnected is connected no later than in the tick 100 after, so the
\* wait ends at the slot's iteration of that tick at the latest; and since
\* then exactly one Connected was sent for it if it is connected and none if
\* it still waits.
C13_BoundedReconnection ==
    LET s == hist.settled IN
    (s.on /\ ~ s.held) =>
      /\ s.conn = (IF connected[s.slot] THEN 1 ELSE 0)
      /\ ~ connected[s.slot] =>
           \/ counter - s.at < 100
           \/ (counter - s.at = 100 /\ pc = "poll" /\ id <= s.slot)

C13_Witness ==
    /\ hist.settled.on /\ ~ hist.settled.held
    /\ hist.settled.slot = 0 /\ hist.settled.at = 0
    /\ hist.reads[0] = <<"A", "P">>
    /\ connected[0]
    /\ hist.settled.conn = 1
    /\ counter = 100 /\ pc = "drain"

\* C14: the step whose read of a slot fails with an error other than
\* device-absent sends no event and leaves the connected flags and the stored
\* snapshot as they were; and whatever was read before, the worker's
\* iteration for a slot reads the adapter whenever the slot is eligible
\* (held as connected, or the tick counter a multiple of 100).
C14_TransientFailureSkipped ==
    [][\A i \in Slots :
         /\ ReadOf(i, OTHER_ERROR)
              => /\ tx' = tx
                 /\ connected' = connected
                 /\ prev_state' = prev_state
         /\ (PollOf(i) /\ (connected[i] \/ counter % 100 = 0))
              => val' \in {SUCCESS, NOT_CONNECTED, OTHER_ERROR}]_vars

C14_Witness ==
    /\ pc = "poll" /\ id = 1
    /\ val = OTHER_ERROR
    /\ connected[0]
    /\ hist.conn[0] = <<"C">>
    /\ prev_state.dwPacketNumber = 1
    /\ counter = 1
    /\ tx = << >>

\* C15: a lookup with gamepad or gamepad_mut of an id of 4 or more returns
\* the one sentinel slot, whose name is empty, whose identifier is nil and
\* whose status is NotObserved; a lookup of an id below 4 returns the real
\* slot at that index; last_gamepad_hint returns 4; and the four real slots
\* stay as Gilrs::new made them, whatever is done through a looked-up slot.
C15_SentinelLookup ==
    /\ hist.look.op \in {"gamepad", "gamepad_mut"} =>
         IF hist.look.id >= 4
         THEN /\ hist.look.ref = [field |-> "not_observed"]
              /\ hist.look.gp.name = ""
              /\ hist.look.gp.uuid = "00000000-0000-0000-0000-000000000000"
              /\ hist.look.gp.status = "NotObserved"
         ELSE /\ hist.look.ref = [field |-> "gamepads", index |-> hist.look.id]
              /\ hist.look.gp = gilrs.gamepads[hist.look.id]
    /\ hist.look.op = "last_gamepad_hint" => hist.look.ret = 4
    /\ gilrs.gamepads = [i \in Slots |-> gamepad_new(i, hist.init[i])]

C15_Witness ==
    /\ hist.look.op = "gamepad_mut"
    /\ hist.look.id = 5
    /\ hist.look.ret = "Err(Error::FfNotSupported)"
    /\ is_connected(gilrs.gamepads[0])
    /\ ~ connected[0]
    /\ counter = 1

\* C16: next_event never blocks (a call can always be made and returns);
\* every call so far returned the oldest event sent and not yet returned, or
\* nothing when there was none; and the events that wait in the channel are
\* exactly those sent and not yet returned, oldest first: no event is lost,
\* returned twice or overtaken, however the calls and the worker's steps
\* interleave.
C16_NextEventFifo ==
    /\ ENABLED NextEvent
    /\ hist.fifo
    /\ hist.owed = tx

C16_Witness ==
    /\ hist.conn[0] = <<"C", "D">>
    /\ hist.got = Some(<<0, ButtonPressed("South", XINPUT_GAMEPAD_A)>>)
    /\ tx = << <<0, Disconnected>> >>
    /\ counter = 1

\* C17: the step that processes Play(n) for a slot that has an effect sets
\* the effect's repeat counter to min(n + 1, 65535); if the effect's delay
\* is not zero it sets the waiting flag and issues no vibration command,
\* otherwise it issues exactly one, for that slot; the step that processes
\* Play or Stop for a slot without an effect record changes no effect and
\* issues no vibration command.
C17_PlaySetsRepeat ==
    [][\A i \in Slots :
         /\ (ProcessesFor(i, "Play") /\ effects[i].some) =>
              /\ effects'[i].some
              /\ effects'[i].repeat =
                   (IF Head(ffrx).n + 1 < 65535 THEN Head(ffrx).n + 1 ELSE 65535)
              /\ IF effects[i].data.delay # 0
                 THEN effects'[i].waiting /\ motor' = motor
                 ELSE /\ motor'[i].calls = motor[i].calls + 1
                      /\ \A j \in Slots \ {i} : motor'[j] = motor[j]
         /\ ((ProcessesFor(i, "Play") \/ ProcessesFor(i, "Stop")) /\ ~ effects[i].some)
              => (effects' = effects /\ motor' = motor)]_vars

C17_Witness ==
    /\ pc = "drain" /\ ffrx = << >>
    /\ effects[0].some
    /\ effects[0].data.delay = 0
    /\ effects[0].repeat = 65535
    /\ motor[0].calls = 2

\* C18: an effect's repeat counter rises only in the step that processes a
\* Play for its slot; the timing pass lowers it by at most one in a tick and
\* never below zero; and the timing pass that brings it to zero is not a
\* fault: the worker goes on.
C18_RepeatMonotone ==
    [][\A i \in Slots :
         (effects[i].some /\ effects'[i].some) =>
           /\ effects'[i].repeat > effects[i].repeat => ProcessesFor(i, "Play")
           /\ TimingStep =>
                /\ effects'[i].repeat >= effects[i].repeat - 1
                /\ effects'[i].repeat >= 0
                /\ (effects[i].repeat > 0 /\ effects'[i].repeat = 0)
                     => pc' # "panicked"]_vars

\* The slot's effect has produced no motor output: it was never played, or
\* no vibration command was issued for the slot since its Play.
NoOutputYet(i) ==
    /\ effects[i].some
    /\ (hist.played[i] = NoPlay \/ motor[i].calls = hist.played[i].calls)

\* C19: stopping an effect that has produced no motor output yet is a no-op
\* and no error: the step that processes Stop for it leaves the repeat
\* counter at 0 and issues no vibration command, and the timing pass that
\* ends or pauses it raises no fault and issues no vibration command.
C19_EarlyStopNoOp ==
    [][\A i \in Slots :
         /\ (NoOutputYet(i) /\ ProcessesFor(i, "Stop"))
              => (effects'[i].repeat = 0 /\ motor' = motor /\ pc' # "panicked")
         /\ (NoOutputYet(i) /\ TimingStep /\ effects'[i].repeat < effects[i].repeat)
              => (motor'[i] = motor[i] /\ pc' # "panicked")]_vars

\* C20: in every timing pass the elapsed time compared for an effect that
\* has repetitions left, ms of the duration since its timestamp, is the
\* number of whole milliseconds of that duration (every duration here fits
\* 16 bits), and the window it is compared with is length + delay, neither
\* wrapped nor overflowing.
C20_ElapsedMilliseconds ==
    [][TimingStep =>
         \A i \in Slots :
           (effects[i].some /\ effects[i].repeat > 0) =>
             /\ effects[i].age <= 65535 => ms(effects[i].age) = effects[i].age
             /\ replay_window(effects[i])
                  = effects[i].data.length + effects[i].data.delay]_vars

\* The step is one iteration of the command drain.
DrainStep == pc = "drain" /\ Len(ffrx') < Len(ffrx)

\* The step leaves the command drain.
LeavesDrain == pc = "drain" /\ pc' # "drain"

\* C21: every tick completes.  An iteration of the drain handles the oldest
\* command of the channel; the drain of one tick handles no more commands
\* than the channel holds (4), whatever is sent meanwhile; and the worker
\* leaves the drain only with the channel empty, through the timing pass,
\* for the polling of the next tick.
C21_TickCompletes ==
    [][/\ DrainStep
            => /\ ffrx' = Tail(ffrx)
               /\ effects' = apply_message(effects, motor, Head(ffrx)).effects
               /\ hist.drained' <= FfChannelCapacity
       /\ LeavesDrain
            => /\ ffrx = << >>
               /\ pc' = "poll"
               /\ counter' = wrapping_add(counter, 1)]_vars

\* The drain of one tick handled more commands than the channel holds.
C21_LongDrain == hist.drained > FfChannelCapacity

InputEvents == {"AxisChanged", "ButtonPressed", "ButtonReleased"}

\* The step sends an axis or button event for slot i.
SendsInputFor(i) ==
    \E k \in 1 .. Len(Emitted) :
      Emitted[k][1] = i /\ Emitted[k][2].type \in InputEvents

\* C22: the events of slot i follow slot i's own raw state.  The worker's
\* iteration for slot i sends events for slot i only; if its read succeeds
\* and returns the snapshot that the slot's previous read returned, it sends
\* no axis or button event for the slot; and it sends ButtonPressed only for
\* a button whose last button event on the slot was not ButtonPressed, and
\* ButtonReleased only for one whose last button event was ButtonPressed.
C22_OwnSnapshotDiff ==
    [][\A i \in Slots :
         PollOf(i) =>
           /\ \A k \in 1 .. Len(Emitted) : Emitted[k][1] = i
           /\ (val' = SUCCESS /\ hist.own[i] = [some |-> TRUE, st |-> state'])
                => ~ SendsInputFor(i)
           /\ \A k \in 1 .. Len(Emitted) :
                LET ev == Emitted[k][2] IN
                  /\ ev.type = "ButtonPressed" => ev.button \notin hist.held[i]
                  /\ ev.type = "ButtonReleased" => ev.button \in hist.held[i]]_vars
====
